---- MODULE Spec2Model ----
(***************************************************************************)
(* Ela Kitty: the map page (components/MapView.js), the dashboard          *)
(* (pages/admin.js) and the sanctuary form (components/SanctuaryForm.js),  *)
(* together with the hosted storage they talk to.  Every handler is cut    *)
(* at its awaits: the step that issues a storage request and the step      *)
(* that receives its answer are separate actions, so that handlers that    *)
(* are in flight at the same time interleave as they do in the browser.    *)
(***************************************************************************)
EXTENDS Integers, Sequences, FiniteSets, TLC

(* ---------- bounds of the model ---------- *)
MaxDeleteCalls == 2   \* handleDelete invocations that may be awaiting at once
MaxSaveCalls == 2     \* saveSanctuary invocations that may be awaiting at once
MaxRefreshKey == 2    \* dashboard mutations followed in one run
MaxFormSaves == 1     \* saves of one drawer that may be awaiting at once
MaxSubmits == 1       \* report submissions that reach storage
MaxLookups == 2       \* requests of one drawer (geocoder, device, logo bucket) awaiting at once

(* ---------- JavaScript values ---------- *)
Null == "<null>"                 \* null / undefined
Users == {"u1", "u2", "u3"}      \* account ids
Roles == {"user", "caregiver", "admin"}
NoId == 0                        \* a sanctuary id that is null / undefined
SanctuaryIds == 1..(2 + MaxRefreshKey)  \* two at the start, one per insert
Reasons == {Null, "", " ", "dup"}  \* what window.prompt can return

\* !x for a string-or-null x
Falsy(x) == x = Null \/ x = ""

\* a value that is null, a number or a string (v is its decimal text)
NullV == [t |-> "null", v |-> ""]
Num(x) == [t |-> "num", v |-> x]
Str(x) == [t |-> "str", v |-> x]

\* Number(text), in hundredths
NumberOf(text) ==
  CASE text = "5" -> 500
    [] text = "2.5" -> 250
    [] text = "0.05" -> 5
    [] text = "-1" -> -100
    [] OTHER -> 0

\* !x for such a value
FalsyV(x) ==
  CASE x.t = "null" -> TRUE
    [] x.t = "num" -> NumberOf(x.v) = 0
    [] OTHER -> x.v = ""

\* the keys of the opening-hours grid: DAYS.map(d => d.toLowerCase())
DAYS == {"mon", "tue", "wed", "thu", "fri", "sat", "sun"}

\* the texts a time input of the grid holds
HourTimes == {"09:00", "17:00"}

\* what a template literal prints for a property that is not there
Undefined == "undefined"

\* `${open}-${close}`
Hyphen(open, close) == open \o "-" \o close

\* a jsonb value: an object with one text per weekday
Json(o) == [t |-> "json", v |-> o]

\* a day of the grid: { open, close, closed }
Day(open, close, closed) ==
  [t |-> "obj", open |-> open, close |-> close, closed |-> closed]

\* toHoursObj: def
DefHours == Day("09:00", "17:00", FALSE)

\* s.includes('-'), for the texts that occur
IncludesHyphen(s) ==
  \E o \in HourTimes \cup {Undefined}, c \in HourTimes \cup {Undefined} :
    s = Hyphen(o, c)

\* s.split('-')
SplitHyphen(s) ==
  CHOOSE p \in (HourTimes \cup {Undefined}) \X (HourTimes \cup {Undefined}) :
    s = Hyphen(p[1], p[2])

\* toHoursObj(raw): the grid built from the stored opening hours
toHoursObj(raw) ==
  [k \in DAYS |->
     IF raw.t = "null" THEN DefHours
     ELSE LET j == raw.v[k] IN
          IF j.t = "str" /\ j.v = "closed" THEN Day("09:00", "17:00", TRUE)
          ELSE IF j.t = "str" /\ IncludesHyphen(j.v)
          THEN Day(SplitHyphen(j.v)[1], SplitHyphen(j.v)[2], FALSE)
          ELSE DefHours]

\* h.open, h.close of a day h of form.opening_hours (a text has neither)
TimeOf(h, k) == IF h.t = "obj" THEN h[k] ELSE Undefined

\* h.closed, as a condition
IsClosed(h) == h.t = "obj" /\ h.closed

\* handleSubmit: hrs, the compact text per weekday
CompactHours(oh) ==
  [k \in DAYS |->
     Str(IF IsClosed(oh[k]) THEN "closed"
         ELSE Hyphen(TimeOf(oh[k], "open"), TimeOf(oh[k], "close")))]

\* opening hours as stored: closed on Monday, nine to five otherwise
StoredHours ==
  Json([k \in DAYS |-> Str(IF k = "mon" THEN "closed" ELSE "09:00-17:00")])

(* ---------- storage at the start ---------- *)
InitSightings ==
  { [id |-> 1, user_id |-> "u1", visibility |-> "admin", photo_url |-> Null],
    [id |-> 2, user_id |-> "u2", visibility |-> "public", photo_url |-> Null],
    [id |-> 3, user_id |-> "u3", visibility |-> "caregiver", photo_url |-> Null] }

\* sanctuaries and caregiver_assignments at the start
InitSanctuaries ==
  { [id |-> 1, name |-> "S", latitude |-> "51.5", longitude |-> "20.7",
     approved |-> TRUE, radius_km |-> Num("5"), boundary |-> Null,
     opening_hours |-> StoredHours],
    [id |-> 2, name |-> "S", latitude |-> "51.5", longitude |-> "20.7",
     approved |-> FALSE, radius_km |-> NullV, boundary |-> "poly",
     opening_hours |-> NullV] }
InitAssign == [k \in SanctuaryIds \X Users |->
  IF k \in {<<1, "u2">>, <<2, "u2">>} THEN 1 ELSE 0]

\* profiles.role at the start
InitProfiles == [u \in Users |->
  IF u = "u1" THEN "user" ELSE IF u = "u2" THEN "caregiver" ELSE "admin"]

VARIABLES
  session,        \* the authenticated account of this browser session, or Null
  lastOp,         \* the handler or continuation that ran last, with its inputs
  deleteReqs,     \* history: every delete request issued on table sightings
  dbSightings,    \* storage: rows of table sightings
  deletionLogs,   \* storage: rows of table deletion_logs, in insertion order
  dbProfiles,     \* storage: profiles.role by account id
  dbSanctuaries,  \* storage: rows of table sanctuaries
  dbAssign,       \* storage: number of caregiver_assignments rows per pair
  nextId,         \* storage: the id the next inserted sanctuary gets
  mapPc,          \* MapView: position of the initial-fetch effect
  user,           \* MapView: state user
  sightings,      \* MapView: state sightings (local list of rows)
  delCalls,       \* MapView: handleDelete invocations awaiting storage
  guardPc,        \* Admin: position of the auth / role guard effect
  loading,        \* Admin: state loading
  myRole,         \* Admin: state myRole
  tab,            \* Admin: state tab
  refreshKey,     \* Admin: state refreshKey
  editSanctuary,  \* Admin: state editSanctuary (the drawer)
  fetches,        \* Admin: selects issued by the effects, not yet answered
  adminSightings, \* Admin: state sightings
  users,          \* Admin: state users
  sanctuaries,    \* Admin: state sanctuaries
  caregivers,     \* Admin: state caregivers
  saveCalls,      \* Admin: saveSanctuary invocations awaiting storage
  roleCalls,      \* Admin: switchRole invocations awaiting storage
  sancDeletes,    \* Admin: deleteSanctuary invocations awaiting storage
  form,           \* SanctuaryForm: state form
  assigned,       \* SanctuaryForm: state assigned (caregiver ids)
  mode,           \* SanctuaryForm: state mode, "radius" or "polygon"
  drawOpen,       \* SanctuaryForm: state drawOpen (the polygon drawer)
  zones,          \* MapView: state zones
  mapSanctuaries, \* MapView: state sanctuaries (marker centres)
  clickedLocation, \* MapView: state clickedLocation (the pin of the report form)
  photoFile,      \* MapView: state photoFile
  visibility,     \* MapView: state visibility
  subCalls,       \* MapView: handleSubmit invocations awaiting storage
  bucket,         \* storage: files in bucket sightings
  nextSighting,   \* storage: the id the next inserted sighting gets
  address,        \* SanctuaryForm: state address
  searching,      \* SanctuaryForm: state searching
  uploading,      \* SanctuaryForm: state uploading
  lookups         \* SanctuaryForm: geocode / useMyLocation / uploadLogo awaiting

histVars == <<deleteReqs>>
dbVars == <<dbSightings, deletionLogs, dbProfiles, dbSanctuaries, dbAssign, nextId>>
mapVars == <<mapPc, user, sightings, delCalls>>
adminLocal == <<guardPc, loading, myRole, tab, refreshKey, editSanctuary,
                adminSightings, users, sanctuaries, caregivers>>
adminCalls == <<fetches, saveCalls, roleCalls, sancDeletes>>
adminVars == <<adminLocal, adminCalls>>
formVars == <<form, assigned, mode, drawOpen>>
reportVars == <<zones, mapSanctuaries, clickedLocation, photoFile, visibility,
                subCalls, bucket, nextSighting>>
lookupVars == <<address, searching, uploading, lookups>>
vars == <<session, lastOp, histVars, dbVars, mapVars, adminVars, formVars,
          reportVars, lookupVars>>

Idle == [pc |-> "idle", s |-> 0, reason |-> Null, audit |-> "none"]

\* editSanctuary: null, {} (Add sanctuary) or a row of the table (Edit)
Closed == [open |-> FALSE, id |-> NoId]

\* the form state while no SanctuaryForm is mounted
NoForm == [id |-> NoId, name |-> "", latitude |-> "", longitude |-> "",
           radius_km |-> NullV, boundary |-> Null, approved |-> FALSE,
           logo_url |-> "", opening_hours |-> [k \in DAYS |-> DefHours]]

\* no call of onSave
NoPayload == [called |-> FALSE, mode |-> "radius", form |-> NoForm, ids |-> <<>>]

NoSave == [pc |-> "idle", sid |-> NoId, ids |-> <<>>, row |-> Closed,
           allOk |-> TRUE, alone |-> TRUE]

\* lastOp: the step taken last; s, reason and k are its inputs, error the
\* storage call that answered with an error in it, alert the message it showed,
\* went whether the handler went on after the answer, done the saveSanctuary
\* invocation that returned in it, payload the arguments it gave to onSave
Op(name) == [name |-> name, s |-> 0, reason |-> Null, k |-> Null, error |-> Null,
             alert |-> Null, went |-> FALSE, done |-> NoSave,
             payload |-> NoPayload]

\* rows of a table in the order a select returns them
RECURSIVE SetToSeq(_)
SetToSeq(S) ==
  IF S = {} THEN <<>>
  ELSE LET r == CHOOSE x \in S : \A y \in S : x.id <= y.id
       IN <<r>> \o SetToSeq(S \ {r})

\* p.filter(row => row.id !== id)
RECURSIVE FilterOut(_, _)
FilterOut(p, id) ==
  IF p = <<>> THEN <<>>
  ELSE IF Head(p).id = id THEN FilterOut(Tail(p), id)
       ELSE <<Head(p)>> \o FilterOut(Tail(p), id)

\* the elements of a list
Rows(p) == {p[i] : i \in 1..Len(p)}

\* the storage calls whose error the calling handler looks at
ErrorChecked(call) == call = "sanctuaries.insert"

\* a handler goes on after `call` answered
GoesOn(call, ok) == ok \/ ~ErrorChecked(call)

\* the step in which `call` answered to a handler working on s
Answer(name, call, ok, s) ==
  [Op(name) EXCEPT !.s = s,
                   !.error = IF ok THEN Null ELSE call,
                   !.alert = IF ~ok /\ ErrorChecked(call) THEN "error.message" ELSE Null,
                   !.went = GoesOn(call, ok)]

\* the state after construction, over a sanctuaries table
InitOn(table) ==
  /\ session \in Users \cup {Null}
  /\ lastOp = Op("init")
  /\ deleteReqs = {}
  /\ dbSightings = InitSightings
  /\ deletionLogs = <<>>
  /\ dbProfiles = InitProfiles
  /\ dbSanctuaries = table
  /\ dbAssign = InitAssign
  /\ nextId = 3
  /\ mapPc = "getUser"
  /\ user = Null
  /\ sightings = <<>>
  /\ delCalls = [i \in 1..MaxDeleteCalls |-> Idle]
  /\ guardPc = "getSession"
  /\ loading = TRUE
  /\ myRole = Null
  /\ tab = "sightings"
  /\ refreshKey = 0
  /\ editSanctuary = Closed
  /\ fetches = {}
  /\ adminSightings = {}
  /\ users = {}
  /\ sanctuaries = {}
  /\ caregivers = {}
  /\ saveCalls = [i \in 1..MaxSaveCalls |-> NoSave]
  /\ roleCalls = {}
  /\ sancDeletes = {}
  /\ form = NoForm
  /\ assigned = <<>>
  /\ mode = "radius"
  /\ drawOpen = FALSE
  /\ zones = {}
  /\ mapSanctuaries = {}
  /\ clickedLocation = Null
  /\ photoFile = Null
  /\ visibility = "public"
  /\ subCalls = <<>>
  /\ bucket = {}
  /\ nextSighting = Cardinality(InitSightings) + 1
  /\ address = ""
  /\ searching = FALSE
  /\ uploading = FALSE
  /\ lookups = <<>>

Init == InitOn(InitSanctuaries)

(* ====================== MapView ====================== *)

\* initial fetch, first await: supabase.auth.getUser()
MapGetUser ==
  /\ mapPc = "getUser"
  /\ user' = IF session # Null THEN session ELSE user
  /\ mapPc' = "sightings"
  /\ lastOp' = Op("MapGetUser")
  /\ UNCHANGED <<session, reportVars, lookupVars, formVars, histVars, dbVars, sightings, delCalls, adminVars>>

\* initial fetch, second await: select * from sightings (data is null on error)
MapFetchSightings ==
  /\ mapPc = "sightings"
  /\ \E ok \in BOOLEAN :
       sightings' = IF ok THEN SetToSeq(dbSightings) ELSE sightings
  /\ mapPc' = "sanctuaries"
  /\ lastOp' = Op("MapFetchSightings")
  /\ UNCHANGED <<session, reportVars, lookupVars, formVars, histVars, dbVars, user, delCalls, adminVars>>

\* (mutant) a sanctuaries query without its filter
AllRows(rows) == rows

\* .eq('approved', true)
ApprovedRows(rows) == {r \in rows : r.approved}

\* initial fetch, third await: the approved sanctuaries (data is null on
\* error); setZones(zData) and setSanctuaries(zData.map(...))
MapFetchSanctuaries ==
  /\ mapPc = "sanctuaries"
  /\ \E ok \in BOOLEAN :
       LET zData == {[id |-> r.id, name |-> r.name, latitude |-> r.latitude,
                      longitude |-> r.longitude, radius_km |-> r.radius_km,
                      boundary |-> r.boundary] : r \in ApprovedRows(dbSanctuaries)}
       IN IF ok
          THEN /\ zones' = zData
               /\ mapSanctuaries' = {[id |-> z.id, name |-> z.name, lat |-> z.latitude,
                                      lng |-> z.longitude] : z \in zData}
          ELSE UNCHANGED <<zones, mapSanctuaries>>
  /\ mapPc' = "done"
  /\ lastOp' = Op("MapFetchSanctuaries")
  /\ UNCHANGED <<session, lookupVars, formVars, histVars, dbVars, user, sightings,
                 delCalls, adminVars, clickedLocation, photoFile, visibility,
                 subCalls, bucket, nextSighting>>

\* (mutant) the Delete button with a bypass for administrators
DeleteButtonAdminBypass(u, s) ==
  u # Null /\ (s.user_id = u \/ dbProfiles[u] = "admin")

\* the Delete button of a popup is rendered for row s
DeleteButtonShown(u, s) == u # Null /\ s.user_id = u

\* (mutant) handleDelete stopping on a cancelled prompt only
ReasonNotNull(reason) == reason # Null

\* handleDelete: the reason typed into the prompt lets the deletion go on
ReasonAccepted(reason) == ~Falsy(reason)

\* click on Delete: handleDelete(s) up to its first await
HandleDelete(s, reason, i) ==
  /\ s \in Rows(sightings)
  /\ DeleteButtonShown(user, s)
  /\ delCalls[i].pc = "idle"
  /\ \A j \in 1..(i - 1) : delCalls[j].pc # "idle"
  /\ lastOp' = [Op("handleDelete") EXCEPT !.s = s.id, !.reason = reason]
  /\ IF user = Null \/ ~ReasonAccepted(reason)
     THEN UNCHANGED delCalls
     ELSE delCalls' = [delCalls EXCEPT ![i] =
            [pc |-> "audit", s |-> s.id, reason |-> reason, audit |-> "none"]]
  /\ UNCHANGED <<session, reportVars, lookupVars, formVars, histVars, dbVars, mapPc, user, sightings, adminVars>>

\* the deletion_logs insert answers; the sightings delete is issued
AuditAnswer(i, ok) ==
  LET c == delCalls[i] IN
  /\ c.pc = "audit"
  /\ deletionLogs' = IF ok
       THEN Append(deletionLogs,
                   [sighting_id |-> c.s, user_id |-> user, reason |-> c.reason])
       ELSE deletionLogs
  /\ IF GoesOn("deletion_logs.insert", ok)
     THEN /\ delCalls' = [delCalls EXCEPT ![i] =
                 [c EXCEPT !.pc = "delete", !.audit = IF ok THEN "ok" ELSE "error"]]
          /\ deleteReqs' = deleteReqs \cup
                 {[sighting_id |-> c.s, audit |-> IF ok THEN "ok" ELSE "error"]}
     ELSE /\ delCalls' = [delCalls EXCEPT ![i] = Idle]
          /\ UNCHANGED deleteReqs
  /\ lastOp' = [Answer("AuditAnswer", "deletion_logs.insert", ok, c.s)
                  EXCEPT !.reason = c.reason]
  /\ UNCHANGED <<session, reportVars, lookupVars, formVars, dbSightings, dbProfiles, dbSanctuaries, dbAssign,
                 nextId, mapPc, user, sightings, adminVars>>

\* the sightings delete answers; the local list is filtered
DeleteAnswer(i, ok) ==
  LET c == delCalls[i] IN
  /\ c.pc = "delete"
  /\ dbSightings' = IF ok THEN {r \in dbSightings : r.id # c.s} ELSE dbSightings
  /\ sightings' = IF GoesOn("sightings.delete", ok)
                  THEN FilterOut(sightings, c.s) ELSE sightings
  /\ delCalls' = [delCalls EXCEPT ![i] = Idle]
  /\ lastOp' = [Answer("DeleteAnswer", "sightings.delete", ok, c.s)
                  EXCEPT !.reason = c.reason]
  /\ UNCHANGED <<session, reportVars, lookupVars, formVars, deleteReqs, deletionLogs, dbProfiles, dbSanctuaries,
                 dbAssign, nextId, mapPc, user, adminVars>>

MapNext ==
  \/ MapGetUser
  \/ MapFetchSightings
  \/ MapFetchSanctuaries
  \/ \E s \in Rows(sightings), reason \in Reasons, i \in 1..MaxDeleteCalls :
       HandleDelete(s, reason, i)
  \/ \E i \in 1..MaxDeleteCalls, ok \in BOOLEAN : AuditAnswer(i, ok)
  \/ \E i \in 1..MaxDeleteCalls, ok \in BOOLEAN : DeleteAnswer(i, ok)

MapSpec == Init /\ [][MapNext]_vars

(* ---------------- MapView: the report form ---------------- *)

Pin == "51.5,20.7"                          \* the point tapped on the map
Photos == {"cat.jpg"}                       \* files the picker can return
Visibilities == {"public", "caregiver", "admin"}

\* getPublicUrl(fileName).data.publicUrl
PublicUrl(file) == "sightings/" \o file

\* TapHandler: a click on the map opens the report form at that point
TapMap ==
  /\ clickedLocation' = Pin
  /\ lastOp' = Op("setClickedLocation")
  /\ UNCHANGED <<session, histVars, dbVars, mapVars, adminVars, formVars, lookupVars,
                 zones, mapSanctuaries, photoFile, visibility, subCalls, bucket,
                 nextSighting>>

\* the file input of the report form: setPhotoFile(e.target.files[0])
SetPhotoFile(file) ==
  /\ clickedLocation # Null
  /\ photoFile' = file
  /\ lastOp' = Op("setPhotoFile")
  /\ UNCHANGED <<session, histVars, dbVars, mapVars, adminVars, formVars, lookupVars,
                 zones, mapSanctuaries, clickedLocation, visibility, subCalls,
                 bucket, nextSighting>>

\* the visibility select of the report form
SetVisibility(v) ==
  /\ clickedLocation # Null
  /\ visibility' = v
  /\ lastOp' = Op("setVisibility")
  /\ UNCHANGED <<session, histVars, dbVars, mapVars, adminVars, formVars, lookupVars,
                 zones, mapSanctuaries, clickedLocation, photoFile, subCalls,
                 bucket, nextSighting>>

\* the Cancel button: resetForm()
ResetForm ==
  /\ clickedLocation # Null
  /\ clickedLocation' = Null
  /\ photoFile' = Null
  /\ visibility' = "public"
  /\ lastOp' = Op("resetForm")
  /\ UNCHANGED <<session, histVars, dbVars, mapVars, adminVars, formVars, lookupVars,
                 zones, mapSanctuaries, subCalls, bucket, nextSighting>>

\* a handleSubmit invocation that has returned
Returned == [pc |-> "done", user_id |-> Null, visibility |-> "public",
             photoFile |-> Null, photoUrl |-> Null]

\* (mutant) a handleSubmit without its login check
AnyUser(u) == TRUE

\* handleSubmit: if (!user) return alert('Please log in first')
LoggedIn(u) == u # Null

\* the Submit button: handleSubmit up to its first await (the upload when a
\* photo was chosen, the insert otherwise); user, visibility and photoFile
\* are the ones of the render the click happened in
HandleSubmit ==
  /\ clickedLocation # Null
  /\ IF ~LoggedIn(user)
     THEN /\ lastOp' = [Op("MapView.handleSubmit") EXCEPT !.alert = "Please log in first"]
          /\ UNCHANGED subCalls
     ELSE /\ Len(subCalls) < MaxSubmits
          /\ subCalls' = Append(subCalls,
               [pc |-> IF photoFile # Null THEN "upload" ELSE "insert",
                user_id |-> user, visibility |-> visibility,
                photoFile |-> photoFile, photoUrl |-> Null])
          /\ lastOp' = [Op("MapView.handleSubmit") EXCEPT !.went = TRUE]
  /\ UNCHANGED <<session, histVars, dbVars, mapVars, adminVars, formVars, lookupVars,
                 zones, mapSanctuaries, clickedLocation, photoFile, visibility,
                 bucket, nextSighting>>

\* the upload to bucket sightings answers: on an error alert and return,
\* otherwise the insert is issued with the public url
UploadAnswer(i, ok) ==
  LET c == subCalls[i] IN
  /\ c.pc = "upload"
  /\ bucket' = IF ok THEN bucket \cup {c.photoFile} ELSE bucket
  /\ subCalls' = [subCalls EXCEPT ![i] =
       IF ok THEN [c EXCEPT !.pc = "insert", !.photoUrl = PublicUrl(c.photoFile)]
       ELSE Returned]
  /\ lastOp' = [Op("UploadAnswer") EXCEPT
                  !.s = i, !.went = ok,
                  !.error = IF ok THEN Null ELSE "sightings.upload",
                  !.alert = IF ok THEN Null ELSE "Photo upload failed"]
  /\ UNCHANGED <<session, histVars, dbVars, mapVars, adminVars, formVars, lookupVars,
                 zones, mapSanctuaries, clickedLocation, photoFile, visibility,
                 nextSighting>>

\* (mutant) a write that keeps one report per user, taking over the old ones
UpsertRow(rows, row) ==
  {[r EXCEPT !.user_id = row.user_id, !.visibility = row.visibility] : r \in rows}
    \cup {row}

\* .from('sightings').insert([row]): the table gains the row
InsertRow(rows, row) == rows \cup {row}

\* the sightings insert answers: on an error alert and return, otherwise
\* setSightings(p => [...p, newRow]) and resetForm()
InsertAnswer(i, ok) ==
  LET c == subCalls[i]
      newRow == [id |-> nextSighting, user_id |-> c.user_id,
                 visibility |-> c.visibility, photo_url |-> c.photoUrl]
  IN
  /\ c.pc = "insert"
  /\ IF ok
     THEN /\ dbSightings' = InsertRow(dbSightings, newRow)
          /\ nextSighting' = nextSighting + 1
          /\ sightings' = Append(sightings, newRow)
          /\ clickedLocation' = Null
          /\ photoFile' = Null
          /\ visibility' = "public"
     ELSE /\ UNCHANGED <<dbSightings, nextSighting, sightings, clickedLocation,
                         photoFile, visibility>>
  /\ subCalls' = [subCalls EXCEPT ![i] = Returned]
  /\ lastOp' = [Op("InsertAnswer") EXCEPT
                  !.s = i, !.went = ok,
                  !.error = IF ok THEN Null ELSE "sightings.insert",
                  !.alert = IF ok THEN Null ELSE "Save failed"]
  /\ UNCHANGED <<session, histVars, deletionLogs, dbProfiles, dbSanctuaries,
                 dbAssign, nextId, mapPc, user, delCalls, adminVars, formVars,
                 lookupVars, zones, mapSanctuaries, bucket>>

ReportNext ==
  \/ MapGetUser
  \/ MapFetchSightings
  \/ TapMap
  \/ \E file \in Photos \cup {Null} : SetPhotoFile(file)
  \/ \E v \in Visibilities : SetVisibility(v)
  \/ ResetForm
  \/ HandleSubmit
  \/ \E i \in DOMAIN subCalls, ok \in BOOLEAN : UploadAnswer(i, ok)
  \/ \E i \in DOMAIN subCalls, ok \in BOOLEAN : InsertAnswer(i, ok)

ReportSpec == Init /\ [][ReportNext]_vars

\* every write the client makes to table sightings: reports without a
\* photo are submitted and the owner's reports are deleted, one at a time
SightingNext ==
  \/ MapGetUser
  \/ MapFetchSightings
  \/ TapMap
  \/ HandleSubmit
  \/ \E i \in DOMAIN subCalls, ok \in BOOLEAN : InsertAnswer(i, ok)
  \/ \E s \in Rows(sightings) : HandleDelete(s, "dup", 1)
  \/ \E ok \in BOOLEAN : AuditAnswer(1, ok)
  \/ \E ok \in BOOLEAN : DeleteAnswer(1, ok)

SightingSpec == Init /\ [][SightingNext]_vars

(* ====================== Admin (the dashboard) ====================== *)

\* (mutant) a guard that lets every profile in
AnyRole(role) == TRUE

\* the roles the dashboard guard lets in
DashboardRole(role) == role \in {"admin", "caregiver"}

\* (mutant) the handlers letting in whoever the dashboard lets in
RoleGateAsGuard(role) == role \in {"admin", "caregiver"}

\* the check at the top of switchRole, saveSanctuary and deleteSanctuary
RoleGate(role) == role = "admin"

\* caregiver_assignments ( caregiver_id ) of a sanctuary, as the select embeds it
RECURSIVE Repeat(_, _)
Repeat(x, n) == IF n <= 0 THEN <<>> ELSE <<x>> \o Repeat(x, n - 1)
AssignList(sid) ==
  Repeat("u1", dbAssign[<<sid, "u1">>]) \o Repeat("u2", dbAssign[<<sid, "u2">>])
    \o Repeat("u3", dbAssign[<<sid, "u3">>])

\* what the select behind a tab (or the caregiver list) returns
Select(kind) ==
  CASE kind = "caregivers" -> {u \in Users : dbProfiles[u] = "caregiver"}
    [] kind = "users" -> {[id |-> u, role |-> dbProfiles[u]] : u \in Users}
    [] kind = "sanctuaries" ->
         {[id |-> r.id, name |-> r.name, latitude |-> r.latitude,
           longitude |-> r.longitude, approved |-> r.approved,
           radius_km |-> r.radius_km, boundary |-> r.boundary,
           opening_hours |-> r.opening_hours,
           caregiver_assignments |-> AssignList(r.id)] : r \in dbSanctuaries}
    [] OTHER -> dbSightings

\* handler invocations the run still follows
InFlight ==
  Cardinality({i \in 1..MaxSaveCalls : saveCalls[i].pc # "idle"})
    + Cardinality(roleCalls) + Cardinality(sancDeletes)
Budget == refreshKey + InFlight < MaxRefreshKey

\* auth / role guard, first await: supabase.auth.getSession()
GuardGetSession ==
  /\ guardPc = "getSession"
  /\ guardPc' = IF session = Null THEN "redirected" ELSE "profile"
  /\ lastOp' = Op("GuardGetSession")
  /\ UNCHANGED <<session, reportVars, lookupVars, formVars, histVars, dbVars, mapVars, loading, myRole, tab, refreshKey,
                 editSanctuary, adminSightings, users, sanctuaries, caregivers,
                 adminCalls>>

\* auth / role guard, second await: the profile row (null on error); when the
\* guard passes, the two loading effects run
GuardProfile ==
  /\ guardPc = "profile"
  /\ \E ok \in BOOLEAN :
       LET role == IF ok THEN dbProfiles[session] ELSE Null IN
       IF role = Null \/ ~DashboardRole(role)
       THEN /\ guardPc' = "redirected"
            /\ UNCHANGED <<myRole, loading, fetches>>
       ELSE /\ guardPc' = "done"
            /\ myRole' = role
            /\ loading' = FALSE
            /\ fetches' = fetches \cup {"caregivers", tab}
  /\ lastOp' = Op("GuardProfile")
  /\ UNCHANGED <<session, reportVars, lookupVars, formVars, histVars, dbVars, mapVars, tab, refreshKey, editSanctuary,
                 adminSightings, users, sanctuaries, caregivers, saveCalls, roleCalls,
                 sancDeletes>>

\* click on a tab; the effect of [tab, loading, refreshKey] runs
SetTab(t) ==
  /\ ~loading
  /\ t # tab
  /\ tab' = t
  /\ fetches' = fetches \cup {t}
  /\ lastOp' = Op("setTab")
  /\ UNCHANGED <<session, reportVars, lookupVars, formVars, histVars, dbVars, mapVars, guardPc, loading, myRole,
                 refreshKey, editSanctuary, adminSightings, users, sanctuaries,
                 caregivers, saveCalls, roleCalls, sancDeletes>>

\* a select of the effects answers: set...(data || [])
FetchAnswer(kind, ok) ==
  /\ kind \in fetches
  /\ fetches' = fetches \ {kind}
  /\ LET data == IF ok THEN Select(kind) ELSE {} IN
     /\ caregivers' = IF kind = "caregivers" THEN data ELSE caregivers
     /\ users' = IF kind = "users" THEN data ELSE users
     /\ sanctuaries' = IF kind = "sanctuaries" THEN data ELSE sanctuaries
     /\ adminSightings' = IF kind = "sightings" THEN data ELSE adminSightings
  /\ lastOp' = Op("FetchAnswer")
  /\ UNCHANGED <<session, reportVars, lookupVars, formVars, histVars, dbVars, mapVars, guardPc, loading, myRole, tab,
                 refreshKey, editSanctuary, saveCalls, roleCalls, sancDeletes>>

\* setRefreshKey(k => k + 1); the effect of [tab, loading, refreshKey] runs
Refresh ==
  /\ refreshKey' = refreshKey + 1
  /\ fetches' = IF loading THEN fetches ELSE fetches \cup {tab}

\* switchRole(id, newRole) up to its await
SwitchRole(id, newRole) ==
  /\ Budget
  /\ lastOp' = Op("switchRole")
  /\ roleCalls' = IF RoleGate(myRole)
                  THEN roleCalls \cup {[id |-> id, role |-> newRole]}
                  ELSE roleCalls
  /\ UNCHANGED <<session, reportVars, lookupVars, formVars, histVars, dbVars, mapVars, adminLocal, fetches, saveCalls,
                 sancDeletes>>

\* the profiles update of switchRole answers
SwitchRoleAnswer(c, ok) ==
  /\ c \in roleCalls
  /\ roleCalls' = roleCalls \ {c}
  /\ dbProfiles' = IF ok THEN [dbProfiles EXCEPT ![c.id] = c.role] ELSE dbProfiles
  /\ IF GoesOn("profiles.update", ok) THEN Refresh
     ELSE UNCHANGED <<refreshKey, fetches>>
  /\ lastOp' = Answer("SwitchRoleAnswer", "profiles.update", ok, 0)
  /\ UNCHANGED <<session, reportVars, lookupVars, formVars, deleteReqs, dbSightings, deletionLogs,
                 dbSanctuaries, dbAssign, nextId, mapVars, guardPc, loading, myRole,
                 tab, editSanctuary, adminSightings, users, sanctuaries, caregivers,
                 saveCalls, sancDeletes>>

\* saveSanctuary: update when the sanctuary has an id, insert otherwise
SavePath(sanctuary) == IF sanctuary.id # NoId THEN "update" ELSE "insert"

\* saveSanctuary(sanctuary, ids) up to its first await, in slot i
SaveSanctuaryStart(sanctuary, ids, i) ==
  IF ~RoleGate(myRole) THEN UNCHANGED saveCalls
  ELSE LET same == {j \in 1..MaxSaveCalls :
                      /\ saveCalls[j].pc # "idle"
                      /\ sanctuary.id # NoId
                      /\ saveCalls[j].sid = sanctuary.id}
       IN saveCalls' = [j \in 1..MaxSaveCalls |->
            IF j = i
            THEN [pc |-> SavePath(sanctuary), sid |-> sanctuary.id, ids |-> ids,
                  row |-> sanctuary, allOk |-> TRUE, alone |-> same = {}]
            ELSE IF j \in same THEN [saveCalls[j] EXCEPT !.alone = FALSE]
            ELSE saveCalls[j]]

FreeSlot(i) ==
  /\ saveCalls[i].pc = "idle"
  /\ \A j \in 1..(i - 1) : saveCalls[j].pc # "idle"

\* the arguments saveSanctuary is called with: a new sanctuary, and three
\* edits of sanctuary 1 that differ in the caregivers ticked
NewSanctuary ==
  [id |-> NoId, name |-> "S", latitude |-> "51.5", longitude |-> "20.7",
   approved |-> FALSE, radius_km |-> Num("5"), boundary |-> Null,
   opening_hours |-> CompactHours(toHoursObj(NullV))]
EditedSanctuary ==
  [id |-> 1, name |-> "S", latitude |-> "51.5", longitude |-> "20.7",
   approved |-> TRUE, radius_km |-> NullV, boundary |-> "poly",
   opening_hours |-> CompactHours(toHoursObj(StoredHours))]
SampleSaves ==
  { <<NewSanctuary, <<"u1">>>>, <<EditedSanctuary, <<>>>>,
    <<EditedSanctuary, <<"u1">>>>, <<EditedSanctuary, <<"u2">>>> }

SaveSanctuary(sanctuary, ids, i) ==
  /\ Budget
  /\ FreeSlot(i)
  /\ lastOp' = Op("saveSanctuary")
  /\ SaveSanctuaryStart(sanctuary, ids, i)
  /\ UNCHANGED <<session, reportVars, lookupVars, formVars, histVars, dbVars, mapVars, adminLocal, fetches, roleCalls,
                 sancDeletes>>

\* the row a payload leaves in table sanctuaries
RowOf(sanctuary, id) ==
  [id |-> id, name |-> sanctuary.name, latitude |-> sanctuary.latitude,
   longitude |-> sanctuary.longitude, approved |-> sanctuary.approved,
   radius_km |-> sanctuary.radius_km, boundary |-> sanctuary.boundary,
   opening_hours |-> Json(sanctuary.opening_hours)]

\* the SanctuaryForm is taken off the page
Unmount ==
  /\ form' = NoForm
  /\ assigned' = <<>>
  /\ mode' = "radius"
  /\ drawOpen' = FALSE

\* the calls still in flight once call i has returned, oldest first
Release(i) ==
  [j \in 1..MaxSaveCalls |->
     IF j < i THEN saveCalls[j]
     ELSE IF j < MaxSaveCalls THEN saveCalls[j + 1] ELSE NoSave]

\* saveSanctuary returns: setEditSanctuary(null); setRefreshKey(k => k + 1)
SaveFinish(i) ==
  /\ saveCalls' = Release(i)
  /\ editSanctuary' = Closed
  /\ Unmount
  /\ Refresh

\* saveSanctuary after sid is known: insert the caregiver links, or return;
\* the step is recorded as `op`
SaveLinks(i, c, op) ==
  IF Len(c.ids) # 0
  THEN /\ saveCalls' = [saveCalls EXCEPT ![i] = [c EXCEPT !.pc = "insAssign"]]
       /\ lastOp' = op
       /\ UNCHANGED <<editSanctuary, refreshKey, fetches, formVars>>
  ELSE /\ SaveFinish(i)
       /\ lastOp' = [op EXCEPT !.done = [c EXCEPT !.pc = "done"]]

\* a handler that looked at the error returns
SaveAbort(i, op) ==
  /\ saveCalls' = Release(i)
  /\ lastOp' = op
  /\ UNCHANGED <<editSanctuary, refreshKey, fetches, formVars>>

\* the sanctuaries update answers; the caregiver_assignments delete is issued
SaveUpdateAnswer(i, ok) ==
  LET c == saveCalls[i] IN
  /\ c.pc = "update"
  /\ dbSanctuaries' = IF ok
       THEN {IF r.id = c.sid THEN RowOf(c.row, c.sid) ELSE r : r \in dbSanctuaries}
       ELSE dbSanctuaries
  /\ saveCalls' = [saveCalls EXCEPT ![i] =
       IF GoesOn("sanctuaries.update", ok)
       THEN [c EXCEPT !.pc = "delAssign", !.allOk = c.allOk /\ ok]
       ELSE NoSave]
  /\ lastOp' = Answer("SaveUpdateAnswer", "sanctuaries.update", ok, c.sid)
  /\ UNCHANGED <<session, reportVars, lookupVars, formVars, deleteReqs, dbSightings, deletionLogs,
                 dbProfiles, dbAssign, nextId, mapVars, adminLocal, fetches, roleCalls,
                 sancDeletes>>

\* (mutant) a delete that leaves the rows in place
KeepLinks(assign, sid) == assign

\* caregiver_assignments.delete().eq('sanctuary_id', sid)
DeleteLinks(assign, sid) ==
  [k \in DOMAIN assign |-> IF k[1] = sid THEN 0 ELSE assign[k]]

\* the caregiver_assignments delete answers
SaveDelAssignAnswer(i, ok) ==
  LET c == saveCalls[i] IN
  /\ c.pc = "delAssign"
  /\ dbAssign' = IF ok THEN DeleteLinks(dbAssign, c.sid) ELSE dbAssign
  /\ LET op == Answer("SaveDelAssignAnswer", "caregiver_assignments.delete", ok, c.sid)
     IN IF GoesOn("caregiver_assignments.delete", ok)
        THEN SaveLinks(i, [c EXCEPT !.allOk = c.allOk /\ ok], op)
        ELSE SaveAbort(i, op)
  /\ UNCHANGED <<session, reportVars, lookupVars, deleteReqs, dbSightings, deletionLogs, dbProfiles,
                 dbSanctuaries, nextId, mapVars, guardPc, loading, myRole, tab,
                 adminSightings, users, sanctuaries, caregivers, roleCalls,
                 sancDeletes>>

\* the sanctuaries insert answers: alert and return on error, else sid = data.id
SaveInsertAnswer(i, ok) ==
  LET c == saveCalls[i] IN
  /\ c.pc = "insert"
  /\ ok => nextId \in SanctuaryIds
  /\ dbSanctuaries' = IF ok THEN dbSanctuaries \cup {RowOf(c.row, nextId)}
                      ELSE dbSanctuaries
  /\ nextId' = IF ok THEN nextId + 1 ELSE nextId
  /\ LET sid == IF ok THEN nextId ELSE NoId
         op == Answer("SaveInsertAnswer", "sanctuaries.insert", ok, sid)
     IN IF GoesOn("sanctuaries.insert", ok)
        THEN SaveLinks(i, [c EXCEPT !.sid = sid, !.allOk = c.allOk /\ ok], op)
        ELSE SaveAbort(i, op)
  /\ UNCHANGED <<session, reportVars, lookupVars, deleteReqs, dbSightings, deletionLogs, dbProfiles, dbAssign,
                 mapVars, guardPc, loading, myRole, tab, adminSightings, users,
                 sanctuaries, caregivers, roleCalls, sancDeletes>>

\* rows.length of the links insert that name caregiver u
Times(ids, u) == Cardinality({n \in 1..Len(ids) : ids[n] = u})

\* the caregiver_assignments insert answers; saveSanctuary returns
SaveInsAssignAnswer(i, ok) ==
  LET c == saveCalls[i] IN
  /\ c.pc = "insAssign"
  /\ ok => \E r \in dbSanctuaries : r.id = c.sid
  /\ dbAssign' = IF ok /\ c.sid # NoId
       THEN [k \in DOMAIN dbAssign |->
               IF k[1] = c.sid THEN dbAssign[k] + Times(c.ids, k[2]) ELSE dbAssign[k]]
       ELSE dbAssign
  /\ LET op == Answer("SaveInsAssignAnswer", "caregiver_assignments.insert", ok, c.sid)
     IN IF GoesOn("caregiver_assignments.insert", ok)
        THEN /\ SaveFinish(i)
             /\ lastOp' = [op EXCEPT !.done = [c EXCEPT !.pc = "done",
                                                         !.allOk = c.allOk /\ ok]]
        ELSE SaveAbort(i, op)
  /\ UNCHANGED <<session, reportVars, lookupVars, deleteReqs, dbSightings, deletionLogs, dbProfiles,
                 dbSanctuaries, nextId, mapVars, guardPc, loading, myRole, tab,
                 adminSightings, users, sanctuaries, caregivers, roleCalls,
                 sancDeletes>>

\* deleteSanctuary(id) up to its await; confirmed is the answer to confirm()
DeleteSanctuary(id, confirmed) ==
  /\ Budget
  /\ lastOp' = [Op("deleteSanctuary") EXCEPT
                  !.s = id, !.reason = IF confirmed THEN "confirmed" ELSE "declined"]
  /\ sancDeletes' = IF RoleGate(myRole) /\ confirmed
                    THEN sancDeletes \cup {id} ELSE sancDeletes
  /\ UNCHANGED <<session, reportVars, lookupVars, formVars, histVars, dbVars, mapVars, adminLocal, fetches, saveCalls,
                 roleCalls>>

\* (mutant) storage that keeps the rows of a deleted sanctuary
OrphanLinks(assign, id) == assign

\* caregiver_assignments is embedded in the sanctuaries select through its
\* foreign key to sanctuaries: storage deletes a sanctuary only together with
\* the rows that refer to it (or answers with an error)
OnDeleteSanctuary(assign, id) == DeleteLinks(assign, id)

\* the sanctuaries delete answers
DeleteSanctuaryAnswer(id, ok) ==
  /\ id \in sancDeletes
  /\ sancDeletes' = sancDeletes \ {id}
  /\ dbSanctuaries' = IF ok THEN {r \in dbSanctuaries : r.id # id} ELSE dbSanctuaries
  /\ dbAssign' = IF ok THEN OnDeleteSanctuary(dbAssign, id) ELSE dbAssign
  /\ IF GoesOn("sanctuaries.delete", ok) THEN Refresh
     ELSE UNCHANGED <<refreshKey, fetches>>
  /\ lastOp' = Answer("DeleteSanctuaryAnswer", "sanctuaries.delete", ok, id)
  /\ UNCHANGED <<session, reportVars, lookupVars, formVars, deleteReqs, dbSightings, deletionLogs,
                 dbProfiles, nextId, mapVars, guardPc, loading, myRole, tab,
                 editSanctuary, adminSightings, users, sanctuaries, caregivers,
                 saveCalls, roleCalls>>

Tabs == {"sightings", "sanctuaries", "users"}

\* the role changes asked of switchRole when it is called as a function
SampleSwitches == {<<"u1", "caregiver">>, <<"u2", "user">>}

Next ==
  \/ GuardGetSession
  \/ GuardProfile
  \/ \E kind \in fetches, ok \in BOOLEAN : FetchAnswer(kind, ok)
  \/ \E sw \in SampleSwitches : SwitchRole(sw[1], sw[2])
  \/ \E c \in roleCalls, ok \in BOOLEAN : SwitchRoleAnswer(c, ok)
  \/ \E sv \in SampleSaves, i \in 1..MaxSaveCalls :
       SaveSanctuary(sv[1], sv[2], i)
  \/ \E i \in 1..MaxSaveCalls, ok \in BOOLEAN : SaveUpdateAnswer(i, ok)
  \/ \E i \in 1..MaxSaveCalls, ok \in BOOLEAN : SaveDelAssignAnswer(i, ok)
  \/ \E i \in 1..MaxSaveCalls, ok \in BOOLEAN : SaveInsertAnswer(i, ok)
  \/ \E i \in 1..MaxSaveCalls, ok \in BOOLEAN : SaveInsAssignAnswer(i, ok)
  \/ \E confirmed \in BOOLEAN : DeleteSanctuary(2, confirmed)
  \/ \E id \in sancDeletes, ok \in BOOLEAN : DeleteSanctuaryAnswer(id, ok)

Spec == Init /\ [][Next]_vars

(* ---------------- Admin: the Users tab ---------------- *)

\* UsersTable: the role select of row u is rendered (canEdit) and answers a
\* change with onSwitch(u.id, e.target.value)
UsersTableSwitch(u, newRole) ==
  /\ ~loading
  /\ tab = "users"
  /\ myRole = "admin"
  /\ u \in users
  /\ newRole # u.role
  /\ SwitchRole(u.id, newRole)

UsersNext ==
  \/ GuardGetSession
  \/ GuardProfile
  \/ SetTab("users")
  \/ \E kind \in fetches, ok \in BOOLEAN : FetchAnswer(kind, ok)
  \/ \E u \in users, newRole \in Roles : UsersTableSwitch(u, newRole)
  \/ \E c \in roleCalls, ok \in BOOLEAN : SwitchRoleAnswer(c, ok)

UsersSpec == Init /\ [][UsersNext]_vars

(* ====================== SanctuaryForm (the drawer) ====================== *)

\* o[k] ?? d, for a column that storage never holds null
Field(o, k, d) == IF k \in DOMAIN o THEN o[k] ELSE d

\* useState initialiser of form; sanctuary is {} or a row of the table
InitialForm(sanctuary) ==
  [id |-> Field(sanctuary, "id", NoId),
   name |-> Field(sanctuary, "name", ""),
   latitude |-> Field(sanctuary, "latitude", ""),
   longitude |-> Field(sanctuary, "longitude", ""),
   radius_km |-> IF Field(sanctuary, "radius_km", NullV) = NullV
                 THEN Num("5") ELSE sanctuary.radius_km,
   boundary |-> Field(sanctuary, "boundary", Null),
   approved |-> Field(sanctuary, "approved", FALSE),
   logo_url |-> Field(sanctuary, "logo_url", ""),
   opening_hours |-> toHoursObj(Field(sanctuary, "opening_hours", NullV))]

\* useState initialiser of assigned
InitialAssigned(sanctuary) == Field(sanctuary, "caregiver_assignments", <<>>)

\* useState initialiser of mode
InitialMode(sanctuary) ==
  IF Falsy(Field(sanctuary, "boundary", Null)) THEN "radius" ELSE "polygon"

\* the dashboard's "+ Add sanctuary" ({}) and Edit (a row) buttons
OpenForm(sanctuary) ==
  /\ Budget
  /\ guardPc = "done"
  /\ tab = "sanctuaries"
  /\ myRole = "admin"
  /\ ~editSanctuary.open
  /\ editSanctuary' = [open |-> TRUE, id |-> Field(sanctuary, "id", NoId)]
  /\ form' = InitialForm(sanctuary)
  /\ assigned' = InitialAssigned(sanctuary)
  /\ mode' = InitialMode(sanctuary)
  /\ drawOpen' = FALSE
  /\ lastOp' = Op("setEditSanctuary")
  /\ UNCHANGED <<session, reportVars, lookupVars, histVars, dbVars, mapVars, guardPc, loading, myRole, tab,
                 refreshKey, adminSightings, users, sanctuaries, caregivers,
                 adminCalls>>

\* the form's Cancel button: onClose
CloseForm ==
  /\ editSanctuary.open
  /\ ~drawOpen
  /\ editSanctuary' = Closed
  /\ Unmount
  /\ lastOp' = Op("onClose")
  /\ UNCHANGED <<session, reportVars, lookupVars, histVars, dbVars, mapVars, guardPc, loading, myRole, tab,
                 refreshKey, adminSightings, users, sanctuaries, caregivers,
                 adminCalls>>

\* what can be typed into the inputs
NameTexts == {"S"}
CoordTexts == {"51.5"}
RadiusTexts == {"0", "-1", "2.5"}

\* (mutant) a setter of radius_km that drops the polygon
SetFieldExclusive(f, k, v) ==
  IF k = "radius_km" THEN [f EXCEPT ![k] = v, !.boundary = Null]
  ELSE [f EXCEPT ![k] = v]

\* setField(k): { ...form, [k]: e.target.value }
SetFieldValue(f, k, v) == [f EXCEPT ![k] = v]

\* onChange of the input of field k
SetField(k, v) ==
  /\ editSanctuary.open
  /\ ~drawOpen
  /\ k = "radius_km" => mode = "radius"
  /\ form[k] # v
  /\ form' = SetFieldValue(form, k, v)
  /\ lastOp' = [Op("setField") EXCEPT !.k = k]
  /\ UNCHANGED <<session, reportVars, lookupVars, histVars, dbVars, mapVars, adminVars, assigned, mode,
                 drawOpen>>

\* the Service area radio buttons
SetMode(m) ==
  /\ editSanctuary.open
  /\ ~drawOpen
  /\ m # mode
  /\ mode' = m
  /\ lastOp' = Op("setMode")
  /\ UNCHANGED <<session, reportVars, lookupVars, histVars, dbVars, mapVars, adminVars, form, assigned,
                 drawOpen>>

\* the "Draw / Edit boundary polygon" button
OpenDrawer ==
  /\ editSanctuary.open
  /\ ~drawOpen
  /\ mode = "polygon"
  /\ drawOpen' = TRUE
  /\ lastOp' = Op("setDrawOpen")
  /\ UNCHANGED <<session, reportVars, lookupVars, histVars, dbVars, mapVars, adminVars, form, assigned, mode>>

\* the layers that can be drawn, and JSON.stringify(gj) of their GeoJSON
DrawnShapes == {"triangle"}
Stringify(gj) ==
  CASE gj = "triangle" -> "poly"
    [] gj = "flat" -> "flat-poly"
    [] OTHER -> "{}"

\* the layers the polygon tool hands to _save: it closes a shape on the
\* third vertex, wherever the three lie
ToolShapes == {"triangle", "flat"}

\* the outer ring of layer.toGeoJSON(), without its closing vertex
Ring(gj) ==
  CASE gj = "triangle" -> <<<<0, 0>>, <<2, 0>>, <<0, 2>>>>
    [] gj = "flat" -> <<<<0, 0>>, <<1, 1>>, <<2, 2>>>>
    [] OTHER -> <<>>

\* JSON.parse of a stored boundary, as the layer it came from
ParseBoundary(text) ==
  CASE text = "poly" -> "triangle"
    [] text = "flat-poly" -> "flat"
    [] OTHER -> "none"

\* BoundaryDrawer onSave(gj), called by _save
DrawerSave(gj) ==
  /\ drawOpen
  /\ form' = [form EXCEPT !.boundary = Stringify(gj)]
  /\ drawOpen' = FALSE
  /\ lastOp' = Op("BoundaryDrawer.onSave")
  /\ UNCHANGED <<session, reportVars, lookupVars, histVars, dbVars, mapVars, adminVars, assigned, mode>>

\* BoundaryDrawer onCancel
DrawerCancel ==
  /\ drawOpen
  /\ drawOpen' = FALSE
  /\ lastOp' = Op("BoundaryDrawer.onCancel")
  /\ UNCHANGED <<session, reportVars, lookupVars, histVars, dbVars, mapVars, adminVars, form, assigned, mode>>

\* p.includes(id) ? p.filter(x => x !== id) : [...p, id]
Toggle(p, id) ==
  IF \E n \in 1..Len(p) : p[n] = id
  THEN SelectSeq(p, LAMBDA x : x # id)
  ELSE Append(p, id)

\* a checkbox of the Assign caregivers list
ToggleCaregiver(id) ==
  /\ editSanctuary.open
  /\ ~drawOpen
  /\ id \in caregivers
  /\ assigned' = Toggle(assigned, id)
  /\ lastOp' = Op("toggleCaregiver")
  /\ UNCHANGED <<session, reportVars, lookupVars, histVars, dbVars, mapVars, adminVars, form, mode, drawOpen>>
\* the text an input shows for a value (null shows as the empty text)
Shown(x) == IF x.t = "null" THEN "" ELSE x.v

\* min="0.1" and step="0.1" of the radius input, in hundredths
RadiusMin == 10
RadiusStep == 10

\* (mutant) a radius input that is only required
RadiusInputRequired(x) == Shown(x) # ""

\* constraint validation of the radius input: required, min, step
RadiusInputValid(x) ==
  /\ Shown(x) # ""
  /\ NumberOf(Shown(x)) >= RadiusMin
  /\ (NumberOf(Shown(x)) - RadiusMin) % RadiusStep = 0

\* constraint validation of the form: the browser fires the submit event only
\* when every rendered input is valid (name, latitude and longitude are
\* required; the radius input is rendered in radius mode only)
FormValid(f, m) ==
  /\ f.name # ""
  /\ f.latitude # ""
  /\ f.longitude # ""
  /\ m = "radius" => RadiusInputValid(f.radius_km)

\* name.trim()
Trim(s) == IF s = " " THEN "" ELSE s

\* (mutant) handleSubmit without its polygon check
SubmitAlertNoPolygon(f, m) ==
  IF Trim(f.name) = "" THEN "Name required"
  ELSE IF Falsy(f.latitude) \/ Falsy(f.longitude) THEN "Location required"
  ELSE IF m = "radius" /\ FalsyV(f.radius_km) THEN "Radius required"
  ELSE Null

\* handleSubmit: the alert it returns with, or Null when it goes on to onSave
SubmitAlert(f, m) ==
  IF Trim(f.name) = "" THEN "Name required"
  ELSE IF Falsy(f.latitude) \/ Falsy(f.longitude) THEN "Location required"
  ELSE IF m = "radius" /\ FalsyV(f.radius_km) THEN "Radius required"
  ELSE IF m # "radius" /\ Falsy(f.boundary) THEN "Draw polygon first"
  ELSE Null

\* (mutant) handleSubmit passing the form on as it is
KeepBoth(f, m) == f

\* handleSubmit: form.boundary = null in radius mode, form.radius_km = null
\* otherwise; the assignment is to the state object itself
ClearOther(f, m) ==
  IF m = "radius" THEN [f EXCEPT !.boundary = Null]
  ELSE [f EXCEPT !.radius_km = NullV]

\* handleSubmit up to onSave: the other geometry is cleared and
\* form.opening_hours = hrs, both assigned to the state object itself
Submitted(f, m) ==
  [ClearOther(f, m) EXCEPT !.opening_hours = CompactHours(@)]

\* the Save button: constraint validation, then handleSubmit, then
\* onSave = saveSanctuary up to its first await
ClickSave ==
  /\ editSanctuary.open
  /\ ~drawOpen
  /\ IF ~FormValid(form, mode)
     THEN /\ lastOp' = [Op("submit") EXCEPT !.alert = "invalid"]
          /\ UNCHANGED <<form, saveCalls>>
     ELSE IF SubmitAlert(form, mode) # Null
     THEN /\ lastOp' = [Op("handleSubmit") EXCEPT !.alert = SubmitAlert(form, mode)]
          /\ UNCHANGED <<form, saveCalls>>
     ELSE LET f == Submitted(form, mode) IN
          /\ Budget
          /\ InFlight < MaxFormSaves
          /\ form' = f
          /\ lastOp' = [Op("handleSubmit") EXCEPT !.payload =
               [called |-> TRUE, mode |-> mode, form |-> f, ids |-> assigned]]
          /\ \E i \in 1..MaxSaveCalls : FreeSlot(i) /\ SaveSanctuaryStart(f, assigned, i)
  /\ UNCHANGED <<session, reportVars, lookupVars, histVars, dbVars, mapVars, adminLocal, fetches, roleCalls,
                 sancDeletes, assigned, mode, drawOpen>>

\* the dashboard of an administrator on tab Sanctuaries, its lists loaded,
\* right after the drawer was opened on {} or on a row of the list
FormInit ==
  /\ session = "u3"
  /\ lastOp = Op("setEditSanctuary")
  /\ deleteReqs = {}
  /\ dbSightings = InitSightings
  /\ deletionLogs = <<>>
  /\ dbProfiles = InitProfiles
  /\ dbSanctuaries = InitSanctuaries
  /\ dbAssign = InitAssign
  /\ nextId = Cardinality(InitSanctuaries) + 1
  /\ mapPc = "getUser"
  /\ user = Null
  /\ sightings = <<>>
  /\ delCalls = [i \in 1..MaxDeleteCalls |-> Idle]
  /\ guardPc = "done"
  /\ loading = FALSE
  /\ myRole = InitProfiles[session]
  /\ tab = "sanctuaries"
  /\ refreshKey = 0
  /\ fetches = {}
  /\ adminSightings = InitSightings
  /\ users = {}
  /\ sanctuaries = Select("sanctuaries")
  /\ caregivers = Select("caregivers")
  /\ saveCalls = [i \in 1..MaxSaveCalls |-> NoSave]
  /\ roleCalls = {}
  /\ sancDeletes = {}
  /\ \E sanctuary \in {<<>>} \cup sanctuaries :
       /\ editSanctuary = [open |-> TRUE, id |-> Field(sanctuary, "id", NoId)]
       /\ form = InitialForm(sanctuary)
       /\ assigned = InitialAssigned(sanctuary)
       /\ mode = InitialMode(sanctuary)
  /\ drawOpen = FALSE
  /\ zones = {}
  /\ mapSanctuaries = {}
  /\ clickedLocation = Null
  /\ photoFile = Null
  /\ visibility = "public"
  /\ subCalls = <<>>
  /\ bucket = {}
  /\ nextSighting = Cardinality(InitSightings) + 1
  /\ address = ""
  /\ searching = FALSE
  /\ uploading = FALSE
  /\ lookups = <<>>

FormNext ==
  \/ \E v \in NameTexts : SetField("name", v)
  \/ \E k \in {"latitude", "longitude"}, v \in CoordTexts : SetField(k, v)
  \/ \E v \in RadiusTexts : SetField("radius_km", Str(v))
  \/ \E m \in {"radius", "polygon"} : SetMode(m)
  \/ OpenDrawer
  \/ \E gj \in DrawnShapes : DrawerSave(gj)
  \/ DrawerCancel
  \/ ClickSave
  \/ CloseForm
  \/ \E kind \in fetches, ok \in BOOLEAN : FetchAnswer(kind, ok)
  \/ \E i \in 1..MaxSaveCalls, ok \in BOOLEAN : SaveUpdateAnswer(i, ok)
  \/ \E i \in 1..MaxSaveCalls, ok \in BOOLEAN : SaveDelAssignAnswer(i, ok)
  \/ \E i \in 1..MaxSaveCalls, ok \in BOOLEAN : SaveInsertAnswer(i, ok)
  \/ \E i \in 1..MaxSaveCalls, ok \in BOOLEAN : SaveInsAssignAnswer(i, ok)

FormSpec == FormInit /\ [][FormNext]_vars

(* ---------------- MapView: the zones on the map ---------------- *)

\* (mutant) a circle whose radius is handed over in kilometres
RadiusInKm(km) == NumberOf(km.v) \div 100

\* Number(z.radius_km) * 1000: the radius of the circle, in metres
RadiusMetres(km) == (NumberOf(km.v) * 1000) \div 100

\* what the map draws for zone z: the GeoJSON of its boundary when it has
\* one, a circle around its location otherwise
ZoneShapes(z) ==
  IF ~Falsy(z.boundary)
  THEN {[kind |-> "GeoJSON", data |-> ParseBoundary(z.boundary),
         center |-> <<"", "">>, radius |-> 0]}
  ELSE {[kind |-> "Circle", data |-> "none",
         center |-> <<z.latitude, z.longitude>>,
         radius |-> RadiusMetres(z.radius_km)]}

\* sanctuaries as the drawer saves them: approved or not, with a radius or
\* with a polygon
ZoneRows ==
  InitSanctuaries \cup
  { [id |-> 3, name |-> "S", latitude |-> "38.8", longitude |-> "20.7",
     approved |-> TRUE, radius_km |-> NullV, boundary |-> "poly",
     opening_hours |-> NullV],
    [id |-> 4, name |-> "S", latitude |-> "38.8", longitude |-> "20.7",
     approved |-> TRUE, radius_km |-> Num("2.5"), boundary |-> Null,
     opening_hours |-> NullV] }

\* the map loading over any table of such rows
ZoneInit == \E table \in SUBSET ZoneRows : InitOn(table)

ZoneNext ==
  \/ MapGetUser
  \/ MapFetchSightings
  \/ MapFetchSanctuaries

ZoneSpec == ZoneInit /\ [][ZoneNext]_vars

\* the polygon drawer alone: whatever the tool hands over is saved
DrawNext ==
  \/ \E v \in NameTexts : SetField("name", v)
  \/ \E k \in {"latitude", "longitude"}, v \in CoordTexts : SetField(k, v)
  \/ \E m \in {"radius", "polygon"} : SetMode(m)
  \/ OpenDrawer
  \/ \E gj \in ToolShapes : DrawerSave(gj)
  \/ DrawerCancel

DrawSpec == FormInit /\ [][DrawNext]_vars

\* the drawer with its Approved checkbox and its caregiver list: a sanctuary
\* is typed in or edited, approved or not, given caregivers, and saved
DraftNext ==
  \/ \E v \in NameTexts : SetField("name", v)
  \/ \E k \in {"latitude", "longitude"}, v \in CoordTexts : SetField(k, v)
  \/ \E v \in BOOLEAN : SetField("approved", v)
  \/ \E u \in Users : ToggleCaregiver(u)
  \/ ClickSave
  \/ \E i \in 1..MaxSaveCalls, ok \in BOOLEAN : SaveUpdateAnswer(i, ok)
  \/ \E i \in 1..MaxSaveCalls, ok \in BOOLEAN : SaveDelAssignAnswer(i, ok)
  \/ \E i \in 1..MaxSaveCalls, ok \in BOOLEAN : SaveInsertAnswer(i, ok)
  \/ \E i \in 1..MaxSaveCalls, ok \in BOOLEAN : SaveInsAssignAnswer(i, ok)

DraftSpec == FormInit /\ [][DraftNext]_vars

(* ---------- SanctuaryForm: address search, device location, logo ---------- *)

AddressTexts == {"", " ", "Zoo"}            \* what the address input can hold
GeocodeHit == [lat |-> "38.7", lon |-> "20.6"]   \* data[0] of a search
DevicePosition == [latitude |-> "52.1", longitude |-> "21.0"]  \* pos.coords
DisplayName == "Zoo Rd 1"                   \* j.display_name
LogoFiles == {"logo.png"}                   \* files the logo picker can return

\* Number(x).toFixed(6), for a decimal with one fractional digit
ToFixed6(x) == x \o "00000"

\* getPublicUrl(fname).data.publicUrl
LogoUrl(file) == "sanctuary-logos/" \o file

\* one request awaiting its answer
Lookup(kind, arg) == [kind |-> kind, arg |-> arg]

\* the list without its i-th element
RemoveAt(q, i) == SubSeq(q, 1, i - 1) \o SubSeq(q, i + 1, Len(q))

\* the address input: setAddress(e.target.value)
SetAddress(a) ==
  /\ editSanctuary.open
  /\ address # a
  /\ address' = a
  /\ lastOp' = Op("setAddress")
  /\ UNCHANGED <<session, histVars, dbVars, mapVars, adminVars, formVars, reportVars,
                 searching, uploading, lookups>>

\* the Search button (disabled while searching): geocode() up to its fetch
Geocode ==
  /\ editSanctuary.open
  /\ ~searching
  /\ IF Trim(address) = ""
     THEN /\ lastOp' = Op("geocode")
          /\ UNCHANGED <<searching, lookups>>
     ELSE /\ Len(lookups) < MaxLookups
          /\ searching' = TRUE
          /\ lookups' = Append(lookups, Lookup("geocode", address))
          /\ lastOp' = [Op("geocode") EXCEPT !.went = TRUE]
  /\ UNCHANGED <<session, histVars, dbVars, mapVars, adminVars, formVars, reportVars,
                 address, uploading>>

\* (mutant) a geocode that reports nothing
GeocodeSilent(outcome) == Null

\* geocode: what it alerts when the fetch threw ("fail"), when the answer
\* has no element ("empty") and when it has one ("hit")
GeocodeAlert(outcome) ==
  CASE outcome = "fail" -> "Geocoding failed"
    [] outcome = "empty" -> "No result"
    [] OTHER -> Null

\* the geocoder answers; finally setSearching(false)
GeocodeAnswer(i, outcome) ==
  /\ lookups[i].kind = "geocode"
  /\ form' = IF outcome = "hit"
             THEN [form EXCEPT !.latitude = ToFixed6(GeocodeHit.lat),
                               !.longitude = ToFixed6(GeocodeHit.lon)]
             ELSE form
  /\ searching' = FALSE
  /\ lookups' = RemoveAt(lookups, i)
  /\ lastOp' = [Op("GeocodeAnswer") EXCEPT
                  !.reason = outcome, !.alert = GeocodeAlert(outcome),
                  !.error = IF outcome = "fail" THEN "geocoder" ELSE Null]
  /\ UNCHANGED <<session, histVars, dbVars, mapVars, adminVars, reportVars,
                 assigned, mode, drawOpen, address, uploading>>

\* the location button: useMyLocation() up to getCurrentPosition
UseMyLocation(supported) ==
  /\ editSanctuary.open
  /\ IF ~supported
     THEN /\ lastOp' = [Op("useMyLocation") EXCEPT !.alert = "Geolocation unsupported"]
          /\ UNCHANGED lookups
     ELSE /\ Len(lookups) < MaxLookups
          /\ lookups' = Append(lookups, Lookup("position", ""))
          /\ lastOp' = [Op("useMyLocation") EXCEPT !.went = TRUE]
  /\ UNCHANGED <<session, histVars, dbVars, mapVars, adminVars, formVars, reportVars,
                 address, searching, uploading>>

\* the device answers: the success callback sets latitude and longitude and
\* fetches the address of the position; the error callback alerts
PositionAnswer(i, ok) ==
  /\ lookups[i].kind = "position"
  /\ IF ok
     THEN /\ form' = [form EXCEPT !.latitude = ToFixed6(DevicePosition.latitude),
                                  !.longitude = ToFixed6(DevicePosition.longitude)]
          /\ lookups' = Append(RemoveAt(lookups, i), Lookup("reverse", ""))
     ELSE /\ UNCHANGED form
          /\ lookups' = RemoveAt(lookups, i)
  /\ lastOp' = [Op("PositionAnswer") EXCEPT
                  !.went = ok,
                  !.error = IF ok THEN Null ELSE "geolocation",
                  !.alert = IF ok THEN Null ELSE "Unable to fetch location"]
  /\ UNCHANGED <<session, histVars, dbVars, mapVars, adminVars, reportVars,
                 assigned, mode, drawOpen, address, searching, uploading>>

\* (mutant) a reverse lookup that empties the address when it has no name
ReverseClears(outcome, old) == IF outcome = "name" THEN DisplayName ELSE ""

\* useMyLocation: if (j.display_name) setAddress(j.display_name); catch {}
ReverseAddress(outcome, old) == IF outcome = "name" THEN DisplayName ELSE old

\* the reverse geocoder answers: with a name, without one, or not at all
ReverseAnswer(i, outcome) ==
  /\ lookups[i].kind = "reverse"
  /\ address' = ReverseAddress(outcome, address)
  /\ lookups' = RemoveAt(lookups, i)
  /\ lastOp' = [Op("ReverseAnswer") EXCEPT
                  !.reason = outcome,
                  !.error = IF outcome = "fail" THEN "geocoder" ELSE Null]
  /\ UNCHANGED <<session, histVars, dbVars, mapVars, adminVars, formVars, reportVars,
                 searching, uploading>>

\* the logo picker (disabled while uploading): uploadLogo(file) up to the
\* upload
UploadLogo(file) ==
  /\ editSanctuary.open
  /\ ~uploading
  /\ IF file = Null
     THEN /\ lastOp' = Op("uploadLogo")
          /\ UNCHANGED <<uploading, lookups>>
     ELSE /\ Len(lookups) < MaxLookups
          /\ uploading' = TRUE
          /\ lookups' = Append(lookups, Lookup("logo", file))
          /\ lastOp' = [Op("uploadLogo") EXCEPT !.went = TRUE]
  /\ UNCHANGED <<session, histVars, dbVars, mapVars, adminVars, formVars, reportVars,
                 address, searching>>

\* (mutant) an uploadLogo that leaves uploading set after an error
StillUploading(ok) == ~ok

\* uploadLogo: setUploading(false) on both ways out
UploadingAfter(ok) == FALSE

\* the upload to bucket sanctuary-logos answers
UploadLogoAnswer(i, ok) ==
  /\ lookups[i].kind = "logo"
  /\ form' = IF ok THEN [form EXCEPT !.logo_url = LogoUrl(lookups[i].arg)] ELSE form
  /\ uploading' = UploadingAfter(ok)
  /\ lookups' = RemoveAt(lookups, i)
  /\ lastOp' = [Op("UploadLogoAnswer") EXCEPT
                  !.went = ok,
                  !.error = IF ok THEN Null ELSE "sanctuary-logos.upload",
                  !.alert = IF ok THEN Null ELSE "Upload failed"]
  /\ UNCHANGED <<session, histVars, dbVars, mapVars, adminVars, reportVars,
                 assigned, mode, drawOpen, address, searching>>

LookupNext ==
  \/ \E a \in AddressTexts : SetAddress(a)
  \/ Geocode
  \/ \E i \in DOMAIN lookups, outcome \in {"hit", "empty", "fail"} :
       GeocodeAnswer(i, outcome)
  \/ \E supported \in BOOLEAN : UseMyLocation(supported)
  \/ \E i \in DOMAIN lookups, ok \in BOOLEAN : PositionAnswer(i, ok)
  \/ \E i \in DOMAIN lookups, outcome \in {"name", "noname", "fail"} :
       ReverseAnswer(i, outcome)
  \/ \E file \in LogoFiles \cup {Null} : UploadLogo(file)
  \/ \E i \in DOMAIN lookups, ok \in BOOLEAN : UploadLogoAnswer(i, ok)

LookupSpec == FormInit /\ [][LookupNext]_vars

\* the report form of the map and the logo picker of the drawer
UploadNext ==
  \/ ReportNext
  \/ \E file \in LogoFiles \cup {Null} : UploadLogo(file)
  \/ \E i \in DOMAIN lookups, ok \in BOOLEAN : UploadLogoAnswer(i, ok)

UploadSpec == FormInit /\ [][UploadNext]_vars

(* ====================== the claims ====================== *)

\* the owner of a sighting (user_id never changes)
OwnerOf(id) == (CHOOSE r \in InitSightings : r.id = id).user_id

\* C1 (as claimed): handleDelete issues the delete on sightings only after the
\* deletion_logs insert for that sighting succeeded; after a failed audit
\* insert no delete is issued.
C1_DeleteOnlyAfterAudit ==
  /\ \A r \in deleteReqs : r.audit = "ok"
  /\ \A i \in 1..MaxDeleteCalls : delCalls[i].pc = "delete" => delCalls[i].audit = "ok"

\* C2: switchRole, saveSanctuary and deleteSanctuary invoked while myRole is not
\* 'admin' (a caregiver, or a role not yet set) issue no storage request and
\* change neither storage nor local state.
GatedOps == {"switchRole", "saveSanctuary", "deleteSanctuary"}
C2_OnlyAdminMutates ==
  [][(lastOp'.name \in GatedOps /\ myRole # "admin")
       => UNCHANGED <<dbVars, histVars, mapVars, adminVars, formVars, reportVars, lookupVars>>]_vars

C2_Witness ==
  /\ lastOp.name \in GatedOps
  /\ myRole = "caregiver"
  /\ ~loading

\* C3: an audit insert or a delete for sighting s is only ever issued by the
\* owner of s, whatever the viewer's role, Admin included.
C3_OnlyOwnerDeletes ==
  /\ \A i \in 1..MaxDeleteCalls :
       delCalls[i].pc # "idle" => OwnerOf(delCalls[i].s) = user
  /\ \A r \in deleteReqs : OwnerOf(r.sighting_id) = user
  /\ \A n \in 1..Len(deletionLogs) :
       OwnerOf(deletionLogs[n].sighting_id) = deletionLogs[n].user_id

\* an administrator deleted a sighting of their own while sightings of others
\* are on the map
C3_Witness ==
  /\ user # Null
  /\ dbProfiles[user] = "admin"
  /\ deleteReqs # {}
  /\ \E row \in Rows(sightings) : row.user_id # user

\* C4: a cancelled prompt or an empty reason makes handleDelete issue nothing
\* and leave the local sightings list alone; every audit record written, and
\* every deletion under way, carries a non-empty reason.
C4_ReasonRequired ==
  /\ [](/\ \A n \in 1..Len(deletionLogs) : ~Falsy(deletionLogs[n].reason)
        /\ \A i \in 1..MaxDeleteCalls :
             delCalls[i].pc # "idle" => ~Falsy(delCalls[i].reason))
  /\ [][(lastOp'.name = "handleDelete" /\ Falsy(lastOp'.reason))
          => UNCHANGED <<dbVars, histVars, mapVars, adminVars, formVars, reportVars, lookupVars>>]_vars

\* the prompt was cancelled or left empty, and another deletion was logged
C4_Witness ==
  /\ lastOp.name = "handleDelete"
  /\ Falsy(lastOp.reason)
  /\ Len(deletionLogs) > 0

\* C5: every payload handleSubmit passes to onSave has exactly one of
\* radius_km and boundary non-null: the radius in radius mode, the boundary in
\* polygon mode.
C5_ExactlyOne ==
  LET p == lastOp.payload IN
  p.called =>
    /\ (p.form.radius_km # NullV) # (p.form.boundary # Null)
    /\ p.mode = "radius" => (p.form.radius_km # NullV /\ p.form.boundary = Null)
    /\ p.mode = "polygon" => (p.form.boundary # Null /\ p.form.radius_km = NullV)

\* a sanctuary was submitted in polygon mode
C5_Witness ==
  /\ lastOp.name = "handleSubmit"
  /\ lastOp.payload.called
  /\ lastOp.payload.mode = "polygon"
  /\ lastOp.payload.form.boundary # Null

\* C6 (as claimed): after the radius is set, or a drawn polygon is saved, the
\* form state does not hold both a radius and a boundary.
C6_SettersExclusive ==
  [][((lastOp'.name = "setField" /\ lastOp'.k = "radius_km")
        \/ lastOp'.name = "BoundaryDrawer.onSave")
       => ~(form'.radius_km # NullV /\ form'.boundary # Null)]_vars

\* C6 (amended): setting the radius leaves form.boundary as it was and saving
\* a drawn polygon leaves form.radius_km as it was, so the form state may hold
\* both; it is handleSubmit that clears the field of the other mode, and
\* after a submit that reached onSave the form state holds exactly one.
C6_SettersKeepOther ==
  [][/\ (lastOp'.name = "setField" /\ lastOp'.k = "radius_km")
          => form'.boundary = form.boundary
     /\ lastOp'.name = "BoundaryDrawer.onSave"
          => form'.radius_km = form.radius_km
     /\ (lastOp'.name = "handleSubmit" /\ lastOp'.payload.called)
          => (form'.radius_km # NullV) # (form'.boundary # Null)]_vars

\* a polygon was saved into a form that still holds a radius
C6_Witness ==
  /\ lastOp.name = "BoundaryDrawer.onSave"
  /\ form.radius_km # NullV
  /\ form.boundary # Null

\* C7: in polygon mode handleSubmit does not call onSave (and so starts no
\* save) while form.boundary is empty.
C7_NoSaveWithoutPolygon ==
  [][(lastOp'.name = "handleSubmit" /\ mode = "polygon" /\ Falsy(form.boundary))
       => (~lastOp'.payload.called /\ UNCHANGED <<saveCalls, form>>)]_vars

\* the drawer was opened on a sanctuary with a polygon, a radius-mode submit
\* (still awaiting storage) discarded the polygon, and a polygon-mode submit
\* was turned down
C7_Witness ==
  /\ lastOp.name = "handleSubmit"
  /\ lastOp.alert = "Draw polygon first"
  /\ mode = "polygon"
  /\ \E r \in InitSanctuaries : r.id = editSanctuary.id /\ r.boundary # Null
  /\ \E i \in 1..MaxSaveCalls :
       /\ saveCalls[i].pc # "idle"
       /\ saveCalls[i].sid = editSanctuary.id
       /\ saveCalls[i].row.boundary = Null

\* C8: in radius mode onSave never gets a radius_km that is numerically zero
\* or negative; such a text is turned down when the form is validated.
C8_RadiusPositive ==
  LET p == lastOp.payload IN
  (p.called /\ p.mode = "radius")
    => (p.form.radius_km # NullV /\ NumberOf(p.form.radius_km.v) > 0)

\* Save was clicked with "0" or "-1" as the radius of an otherwise valid form
C8_Witness ==
  /\ lastOp.name = "submit"
  /\ lastOp.alert = "invalid"
  /\ mode = "radius"
  /\ form.radius_km \in {Str("0"), Str("-1")}
  /\ FormValid(form, "polygon")
  /\ ~lastOp.payload.called

\* C9 (as claimed): saveSanctuary updates when the sanctuary has an id and
\* inserts otherwise; when an update returns and all its storage calls
\* succeeded, the caregiver_assignments rows of that sanctuary are exactly one
\* per given caregiver id.
C9_UpdateReplaces ==
  /\ \A i \in 1..MaxSaveCalls :
       /\ saveCalls[i].pc \in {"update", "delAssign"} => saveCalls[i].row.id # NoId
       /\ saveCalls[i].pc = "insert" => saveCalls[i].row.id = NoId
  /\ LET c == lastOp.done IN
     (c.pc = "done" /\ c.row.id # NoId /\ c.allOk)
       => \A u \in Users : dbAssign[<<c.sid, u>>] = Times(c.ids, u)

\* C10 (as claimed): a handler that gets an error from a storage call tells the
\* actor and does not go on as if the call had succeeded.
C10_FailuresReported ==
  lastOp.error # Null => (lastOp.alert # Null /\ ~lastOp.went)

CanView(s, viewer) ==
  \/ s.visibility = "public"
  \/ viewer # Null /\ s.user_id = viewer
  \/ viewer # Null /\ s.visibility = "caregiver"
       /\ dbProfiles[viewer] \in {"caregiver", "admin"}
  \/ viewer # Null /\ s.visibility = "admin" /\ dbProfiles[viewer] = "admin"

\* C12 (as claimed): every sighting in the sightings list of the map view and
\* in the sightings tab of the dashboard may be seen by the signed-in viewer
\* according to canView.
C12_ShownSatisfyCanView ==
  /\ \A n \in 1..Len(sightings) : CanView(sightings[n], session)
  /\ \A s \in adminSightings : CanView(s, session)

\* C13: every entry of zones and of sanctuaries on the map comes from a
\* sanctuary row that is approved, and the two lists hold the same ids.
C13_OnlyApprovedOnMap ==
  /\ \A z \in zones : \E r \in dbSanctuaries : r.id = z.id /\ r.approved
  /\ \A m \in mapSanctuaries : \E r \in dbSanctuaries : r.id = m.id /\ r.approved
  /\ {z.id : z \in zones} = {m.id : m \in mapSanctuaries}

\* the map loaded its zones while storage holds an unapproved sanctuary
C13_Witness ==
  /\ mapPc = "done"
  /\ zones # {}
  /\ mapSanctuaries # {}
  /\ \E r \in dbSanctuaries : ~r.approved

C18_HoursCompact ==
  [][(lastOp'.name = "handleSubmit" /\ lastOp'.payload.called)
       => \A k \in DAYS :
            LET v == lastOp'.payload.form.opening_hours[k].v IN
            \/ v = "closed"
            \/ \E o \in HourTimes, c \in HourTimes : v = Hyphen(o, c)]_vars

\* C14: handleSubmit issues no upload and no insert while user is null,
\* and every sighting row that gets inserted has the user_id of the current
\* user.
C14_OnlyOwnUserCreates ==
  [][/\ user = Null => UNCHANGED <<subCalls, bucket, dbSightings>>
     /\ \A r \in dbSightings' \ dbSightings : user # Null /\ r.user_id = user]_vars

\* a logged-in user's report was stored under their id, with its photo
C14_Witness ==
  /\ lastOp.name = "InsertAnswer"
  /\ lastOp.error = Null
  /\ \E r \in dbSightings \ InitSightings :
       r.user_id = user /\ user # Null /\ r.photo_url # Null

\* C15: when the photo upload of the report fails the actor is alerted, no
\* sighting row is inserted for that report and the form state is kept;
\* when the logo upload of the drawer fails, logo_url is unchanged and
\* uploading is false again.
C15_UploadFailureReported ==
  [][/\ (lastOp'.name = "UploadAnswer" /\ lastOp'.error # Null)
          => /\ lastOp'.alert = "Photo upload failed"
             /\ subCalls'[lastOp'.s].pc = "done"
             /\ UNCHANGED <<dbSightings, sightings, clickedLocation, photoFile,
                            visibility>>
     /\ (lastOp'.name = "UploadLogoAnswer" /\ lastOp'.error # Null)
          => /\ form'.logo_url = form.logo_url
             /\ ~uploading']_vars

\* both uploads have failed: the photo of a report, then the logo
C15_Witness ==
  /\ lastOp.name = "UploadLogoAnswer"
  /\ lastOp.error # Null
  /\ ~uploading
  /\ \E i \in DOMAIN subCalls : subCalls[i].pc = "done"
  /\ bucket = {}
  /\ dbSightings = InitSightings
  /\ photoFile # Null

\* C19: after geocode() failed or found nothing an alert has been raised,
\* form.latitude and form.longitude are what they were and searching is
\* false again; geocode() on a blank address issues no request.
C19_GeocodeFailureReported ==
  [][/\ (lastOp'.name = "GeocodeAnswer" /\ lastOp'.reason \in {"fail", "empty"})
          => /\ lastOp'.alert # Null
             /\ form'.latitude = form.latitude
             /\ form'.longitude = form.longitude
             /\ ~searching'
     /\ (lastOp'.name = "geocode" /\ Trim(address) = "")
          => UNCHANGED <<lookups, searching, form>>]_vars

\* a search that failed, after a position of the device had been taken
C19_Witness ==
  /\ lastOp.name = "GeocodeAnswer"
  /\ lastOp.reason = "fail"
  /\ lastOp.alert = "Geocoding failed"
  /\ form.latitude = ToFixed6(DevicePosition.latitude)
  /\ ~searching

\* C20 (as the code has it): when the reverse lookup of useMyLocation fails
\* or has no name, latitude and longitude stay as set from the device
\* position, nothing is alerted and the address field is left as it was.
C20_ReverseFailureKeepsAddress ==
  [][/\ (lastOp'.name = "PositionAnswer" /\ lastOp'.went)
          => /\ form'.latitude = ToFixed6(DevicePosition.latitude)
             /\ form'.longitude = ToFixed6(DevicePosition.longitude)
     /\ (lastOp'.name = "ReverseAnswer" /\ lastOp'.reason # "name")
          => /\ form' = form
             /\ lastOp'.alert = Null
             /\ address' = address]_vars

\* the reverse lookup failed under an address the actor had typed
C20_Witness ==
  /\ lastOp.name = "ReverseAnswer"
  /\ lastOp.reason = "fail"
  /\ address = "Zoo"
  /\ form.latitude = ToFixed6(DevicePosition.latitude)
  /\ form.longitude = ToFixed6(DevicePosition.longitude)

\* C20 (as stated): when the reverse lookup fails the address field is left
\* blank.
C20_ReverseFailureLeavesBlank ==
  [][(lastOp'.name = "ReverseAnswer" /\ lastOp'.reason = "fail")
       => /\ form' = form
          /\ lastOp'.alert = Null
          /\ address' = ""]_vars

\* C16: the local sightings list changes only after the storage write
\* succeeded: a row is appended only after a successful insert and removed
\* only after a successful delete; after a failed insert or a failed delete
\* the list is what it was.
C16_LocalListAfterSuccess ==
  [][(lastOp'.name \in {"InsertAnswer", "DeleteAnswer"} /\ lastOp'.error # Null)
       => sightings' = sightings]_vars

\* C21: the viewer's role in the dashboard is set once from the stored
\* profile role and no later client operation changes it, and switchRole
\* never changes the stored role of the acting administrator's own account.
C21_OwnRoleFixed ==
  [][/\ myRole # Null => myRole' = myRole
     /\ lastOp'.name = "SwitchRoleAnswer"
          => dbProfiles'[session] = dbProfiles[session]]_vars

\* C22: every insert that saveSanctuary issues for a sanctuary without id
\* carries approved = false.
C22_NewIsDraft ==
  \A i \in 1..MaxSaveCalls :
    saveCalls[i].pc = "insert" => saveCalls[i].row.approved = FALSE

\* C23: a stored sighting is never changed: a row that is in the table
\* before and after a step is the same row, and the table changes only when
\* the insert of handleSubmit or the delete of handleDelete is answered.
C23_SightingsNeverMutated ==
  [][/\ \A r \in dbSightings : \A q \in dbSightings' : q.id = r.id => q = r
     /\ dbSightings' # dbSightings
          => lastOp'.name \in {"InsertAnswer", "DeleteAnswer"}]_vars

\* a report was added and one was deleted; the others are as they were
C23_Witness ==
  /\ lastOp.name = "DeleteAnswer"
  /\ \E r \in dbSightings : r \notin InitSightings
  /\ \E r \in InitSightings : r \notin dbSightings
  /\ \E r \in InitSightings : r \in dbSightings

\* twice the area a ring encloses (shoelace sum)
RECURSIVE Shoelace(_, _)
Shoelace(ring, i) ==
  IF i > Len(ring) THEN 0
  ELSE LET a == ring[i]
           b == ring[IF i = Len(ring) THEN 1 ELSE i + 1]
       IN (a[1] * b[2] - b[1] * a[2]) + Shoelace(ring, i + 1)

\* fewer than 3 distinct vertices, or no enclosed area
Degenerate(ring) ==
  \/ Cardinality({ring[i] : i \in 1..Len(ring)}) < 3
  \/ Shoelace(ring, 1) = 0

\* C24: a shape with fewer than 3 distinct vertices or without enclosed area
\* is never stored as form.boundary.
C24_NoDegenerateBoundary ==
  form.boundary # Null => ~Degenerate(Ring(ParseBoundary(form.boundary)))

\* C26: for every zone the map draws exactly one shape: the polygon of its
\* boundary when the boundary is not null, otherwise a circle around the
\* sanctuary's location with a radius of radius_km * 1000 metres.
C26_OneShapePerZone ==
  \A z \in zones :
    /\ Cardinality(ZoneShapes(z)) = 1
    /\ \A s \in ZoneShapes(z) :
         IF z.boundary # Null
         THEN s.kind = "GeoJSON" /\ s.data = ParseBoundary(z.boundary)
         ELSE /\ s.kind = "Circle"
              /\ s.center = <<z.latitude, z.longitude>>
              /\ s.radius * 100 = NumberOf(z.radius_km.v) * 1000

\* the map holds a polygon zone and two circle zones of 5 km and 2.5 km
C26_Witness ==
  /\ mapPc = "done"
  /\ \E z \in zones : z.boundary # Null
  /\ \E z \in zones : z.boundary = Null /\ RadiusMetres(z.radius_km) = 5000
  /\ \E z \in zones : z.boundary = Null /\ RadiusMetres(z.radius_km) = 2500

\* C27: while the guard has not passed (no session, or a profile role other
\* than admin and caregiver) the page stays loading and is sent to '/', and
\* no select of the dashboard has been issued; once loading is false myRole
\* is one of the two roles.
C27_GuardBeforeData ==
  [][/\ loading' => /\ fetches' = {}
                    /\ adminSightings' = {} /\ users' = {}
                    /\ sanctuaries' = {} /\ caregivers' = {}
     /\ ~loading' => myRole' \in {"admin", "caregiver"}
     /\ guardPc' = "redirected" => loading'
     /\ session = Null
          => /\ loading'
             /\ lastOp'.name = "GuardGetSession" => guardPc' = "redirected"
     /\ (lastOp'.name = "GuardProfile" /\ dbProfiles[session] \notin {"admin", "caregiver"})
          => guardPc' = "redirected" /\ loading']_vars

\* an account with role user was sent away and nothing was loaded
C27_Witness ==
  /\ session # Null
  /\ dbProfiles[session] = "user"
  /\ lastOp.name = "GuardProfile"
  /\ guardPc = "redirected"
  /\ loading
  /\ fetches = {}

\* C28: when the sanctuaries insert of saveSanctuary fails the message is
\* shown, no caregiver link is inserted, the drawer stays open and refreshKey
\* is unchanged; when it succeeded, saveSanctuary ends with the caregiver
\* links created under the id the insert returned, the drawer closed and
\* refreshKey incremented once.
C28_InsertOutcome ==
  [][/\ (lastOp'.name = "SaveInsertAnswer" /\ lastOp'.error # Null)
          => /\ lastOp'.alert # Null
             /\ dbAssign' = dbAssign
             /\ \A i \in 1..MaxSaveCalls :
                  saveCalls'[i].pc = "insAssign"
                    => \E j \in 1..MaxSaveCalls : saveCalls[j] = saveCalls'[i]
             /\ editSanctuary' = editSanctuary
             /\ refreshKey' = refreshKey
     /\ (lastOp'.done.pc = "done" /\ lastOp'.done.row.id = NoId)
          => /\ lastOp'.done.sid # NoId
             /\ \E r \in dbSanctuaries' : r.id = lastOp'.done.sid
             /\ \A u \in Users :
                  dbAssign'[<<lastOp'.done.sid, u>>] = Times(lastOp'.done.ids, u)
             /\ editSanctuary' = Closed
             /\ refreshKey' = refreshKey + 1]_vars

\* C29: after switchRole calls, once the refetch that the mutation triggered
\* has completed (nothing is in flight and the users table shows the stored
\* roles), the caregivers list offered in the sanctuary form is the set of
\* profiles whose stored role is 'caregiver'.
C29_CaregiversFollowRoles ==
  (/\ guardPc = "done"
   /\ roleCalls = {}
   /\ fetches = {}
   /\ users = Select("users")
   /\ caregivers # {})
    => caregivers = Select("caregivers")

\* the deletion_logs rows written for sighting id
LogsOf(id) == {n \in 1..Len(deletionLogs) : deletionLogs[n].sighting_id = id}

\* C30: for each sighting at most one audit record is written and at most one
\* storage delete is issued, also when handleDelete is invoked again for the
\* same sighting while the first invocation awaits its storage calls; every
\* sighting the client removed from storage has exactly one deletion_logs
\* record.
C30_OneDeletionPerSighting ==
  /\ \A r \in InitSightings : Cardinality(LogsOf(r.id)) <= 1
  /\ \A i, j \in 1..MaxDeleteCalls :
       (i # j /\ delCalls[i].pc = "delete" /\ delCalls[j].pc = "delete")
         => delCalls[i].s # delCalls[j].s
  /\ \A r \in InitSightings :
       (\A row \in dbSightings : row.id # r.id) => Cardinality(LogsOf(r.id)) = 1

====
